---- MODULE Spec2Model ----
(***************************************************************************)
(* Screen-state engine of the midterm terminal emulator.                   *)
(*                                                                         *)
(* The model follows src/terminal.go (Terminal and the generic editing     *)
(* primitives) and src/unnamed/part_000 (Screen, resize, clear).  Screen   *)
(* methods that terminal.go calls but that are in neither file (paint,     *)
(* moveAbs, moveRel, changed, ensureHeight, the format canvas, the scroll  *)
(* region setter) are modelled from the specification's sections 3-4.      *)
(*                                                                         *)
(* Go slices are 0-based; the sequences below are 1-based, so every index  *)
(* goes through Get/Set.  An index outside a slice is a Go run-time panic: *)
(* every primitive returns [arr, ok] and ok = FALSE is that panic.  A row  *)
(* of formats is kept cell by cell (the expansion of its run-length        *)
(* regions), so its length is the sum of its region sizes.                 *)
(***************************************************************************)
EXTENDS Integers, Sequences, FiniteSets, TLC

VARIABLES Screen, Alt, IsAlt, AutoResizeX, AutoResizeY, AppendOnly, wrap,
          onScrollback, scrollbackLog, panicked, op, fuel, putRun,
          mut, pc, frame, onResize, notified

\* The mutex, each thread's position and locals inside Resize / ResizeX /
\* ResizeY / OnResize, the registered resize callback and the invocations
\* of resize callbacks made so far.
lockVars == <<mut, pc, frame, onResize, notified>>

vars == <<Screen, Alt, IsAlt, AutoResizeX, AutoResizeY, AppendOnly, wrap,
          onScrollback, scrollbackLog, panicked, op, fuel, putRun,
          mut, pc, frame, onResize, notified>>

\* ---------------------------------------------------------------- bounds
MaxH == 3
MaxW == 2
MaxN == 4
MaxSteps == 3
MaxWrapSteps == 4
NThreads == 2
MaxCalls == 2

\* ---------------------------------------------------------------- values
Runes == {"A", "B"}
Formats == {0, 1}
DefaultFormat == 0
Blank == " "
\* counts handed to the editing primitives: small ones and one larger than
\* any range or row of the grid
Counts == {1, 2, MaxN}

Min(a, b) == IF a < b THEN a ELSE b
Max(a, b) == IF a > b THEN a ELSE b

\* ------------------------------------------------------- slice primitives
InRange(arr, i) == i >= 0 /\ i < Len(arr)
Get(arr, i) == arr[i + 1]
Set(arr, i, val) == [arr EXCEPT ![i + 1] = val]
Fill(n, val) == [j \in 1..n |-> val]
Ok(arr) == [arr |-> arr, ok |-> TRUE]
Panic(a) == [a EXCEPT !.ok = FALSE]

\* for i := from; i < lim; i++ { arr[i] = arr[i+positions] }
RECURSIVE ShiftUpLoop(_, _, _, _)
ShiftUpLoop(a, i, lim, positions) ==
    IF ~a.ok \/ i >= lim THEN a
    ELSE IF ~InRange(a.arr, i) \/ ~InRange(a.arr, i + positions) THEN Panic(a)
    ELSE ShiftUpLoop([a EXCEPT !.arr = Set(a.arr, i, Get(a.arr, i + positions))],
                     i + 1, lim, positions)

\* for i := from; i >= lim; i-- { arr[i] = arr[i-positions] }
RECURSIVE ShiftDownLoop(_, _, _, _)
ShiftDownLoop(a, i, lim, positions) ==
    IF ~a.ok \/ i < lim THEN a
    ELSE IF ~InRange(a.arr, i) \/ ~InRange(a.arr, i - positions) THEN Panic(a)
    ELSE ShiftDownLoop([a EXCEPT !.arr = Set(a.arr, i, Get(a.arr, i - positions))],
                       i - 1, lim, positions)

\* for i := from; i < lim; i++ { arr[i] = make([]T, len(arr[i])) filled with empty }
RECURSIVE BlankLoop(_, _, _, _)
BlankLoop(a, i, lim, empty) ==
    IF ~a.ok \/ i >= lim THEN a
    ELSE IF ~InRange(a.arr, i) THEN Panic(a)
    ELSE BlankLoop([a EXCEPT !.arr = Set(a.arr, i, Fill(Len(Get(a.arr, i)), empty))],
                   i + 1, lim, empty)

\* for i := from; i < lim; i++ { arr[i] = init() }
RECURSIVE InitLoop(_, _, _, _)
InitLoop(a, i, lim, initv) ==
    IF ~a.ok \/ i >= lim THEN a
    ELSE IF ~InRange(a.arr, i) THEN Panic(a)
    ELSE InitLoop([a EXCEPT !.arr = Set(a.arr, i, initv)], i + 1, lim, initv)

scrollUp(arr, positions, start, end, empty) ==
    IF start < 0 \/ end > Len(arr) \/ start >= end \/ positions <= 0 THEN Ok(arr)
    ELSE BlankLoop(ShiftUpLoop(Ok(arr), start, (end + 1) - positions, positions),
                   end - positions + 1, end + 1, empty)

scrollUpShallow(arr, positions, start, end, initv) ==
    IF start < 0 \/ end > Len(arr) \/ start >= end \/ positions <= 0 THEN Ok(arr)
    ELSE InitLoop(ShiftUpLoop(Ok(arr), start, (end + 1) - positions, positions),
                  end - positions + 1, end + 1, initv)

scrollDown(arr, positions, start, end, empty) ==
    IF start < 0 \/ end > Len(arr) \/ start >= end \/ positions <= 0 THEN Ok(arr)
    ELSE BlankLoop(ShiftDownLoop(Ok(arr), end, start + positions, positions),
                   start, start + positions, empty)

scrollDownShallow(arr, positions, start, end, initv) ==
    IF start < 0 \/ end > Len(arr) \/ start >= end \/ positions <= 0 THEN Ok(arr)
    ELSE InitLoop(ShiftDownLoop(Ok(arr), end, start + positions, positions),
                  start, start + positions, initv)

insertLines(arr, start, ps, scrollStart, scrollEnd, empty) ==
    IF start < 0 \/ start + ps > Len(arr) \/ ps <= 0 THEN Ok(arr)
    ELSE BlankLoop(ShiftDownLoop(Ok(arr), scrollEnd, start + ps, ps),
                   start, start + ps, empty)

insertLinesShallow(arr, start, ps, scrollStart, scrollEnd, initv) ==
    IF start < 0 \/ start + ps > Len(arr) \/ ps <= 0 THEN Ok(arr)
    ELSE InitLoop(ShiftDownLoop(Ok(arr), scrollEnd, start + ps, ps),
                  start, start + ps, initv)

\* copy(arr[lo:hi], arr[from:]): the slice expressions panic unless
\* 0 <= lo <= hi <= cap and from <= len; a slice made by make or truncated by
\* resize has cap >= Height, and hi is at most Height-1 here, so only len
\* decides.  copy moves min(hi-lo, len-from) elements as memmove does.
CopyRows(a, lo, hi, from) ==
    IF ~a.ok THEN a
    ELSE IF lo < 0 \/ lo > hi \/ from > Len(a.arr) THEN Panic(a)
    ELSE LET cnt == Min(hi - lo, Len(a.arr) - from)
         IN  [a EXCEPT !.arr = [j \in 1..Len(a.arr) |->
                 IF j - 1 >= lo /\ j - 1 < lo + cnt /\ j - 1 < Len(a.arr)
                 THEN a.arr[(j - 1) - lo + from + 1] ELSE a.arr[j]]]

\* for i := from; i < lim; i++ { arr[i] = make([]T, len(arr[start])) filled with empty }
RECURSIVE BlankLikeLoop(_, _, _, _, _)
BlankLikeLoop(a, i, lim, start, empty) ==
    IF ~a.ok \/ i >= lim THEN a
    ELSE IF ~InRange(a.arr, start) \/ ~InRange(a.arr, i) THEN Panic(a)
    ELSE BlankLikeLoop([a EXCEPT !.arr = Set(a.arr, i, Fill(Len(Get(a.arr, start)), empty))],
                       i + 1, lim, start, empty)

deleteLines(arr, start, ps, scrollStart, scrollEnd, empty) ==
    IF start < 0 \/ start + ps > Len(arr) \/ ps <= 0 THEN Ok(arr)
    ELSE BlankLikeLoop(CopyRows(Ok(arr), start, scrollEnd, start + ps),
                       (scrollEnd - ps) + 1, scrollEnd + 1, start, empty)

deleteLinesShallow(arr, start, ps, scrollStart, scrollEnd, initv) ==
    IF start < 0 \/ start + ps > Len(arr) \/ ps <= 0 THEN Ok(arr)
    ELSE InitLoop(CopyRows(Ok(arr), start, scrollEnd, start + ps),
                  (scrollEnd - ps) + 1, scrollEnd + 1, initv)

\* for i := from; i < lim; i++ { arr[row][i] = empty }
RECURSIVE CellLoop(_, _, _, _, _)
CellLoop(a, row, i, lim, empty) ==
    IF ~a.ok \/ i >= lim THEN a
    ELSE IF ~InRange(a.arr, row) \/ ~InRange(Get(a.arr, row), i) THEN Panic(a)
    ELSE CellLoop([a EXCEPT !.arr = Set(a.arr, row, Set(Get(a.arr, row), i, empty))],
                  row, i + 1, lim, empty)

eraseCharacters(arr, row, col, ps0, empty) ==
    IF row < 0 \/ row >= Len(arr) THEN Ok(arr)
    ELSE IF col < 0 \/ col + ps0 > Len(Get(arr, row)) THEN Ok(arr)
    ELSE LET ps == IF ps0 <= 0 THEN 1 ELSE ps0
         IN  CellLoop(Ok(arr), row, col, col + ps, empty)

deleteCharacters(arr, row, col, ps, empty) ==
    IF row < 0 \/ row >= Len(arr) THEN Ok(arr)
    ELSE IF col < 0 \/ col >= Len(Get(arr, row)) \/ ps < 0 THEN Ok(arr)
    ELSE LET r  == Get(arr, row)
             a0 == IF ps = 0 THEN 1 ELSE ps
             actualPs == IF col + a0 > Len(r) THEN Len(r) - col ELSE a0
             \* copy(arr[row][col:], arr[row][col+actualPs:])
             moved == [j \in 1..Len(r) |->
                         IF j - 1 >= col /\ j - 1 < Len(r) - actualPs
                         THEN r[j + actualPs] ELSE r[j]]
         IN  CellLoop(Ok(Set(arr, row, moved)), row, Len(r) - ps, Len(r), empty)

insertEmpties(arr, row, col, ps, empty) ==
    IF row < 0 \/ row >= Len(arr) THEN Ok(arr)
    ELSE IF col < 0 \/ col > Len(Get(arr, row)) \/ ps <= 0 THEN Ok(arr)
    ELSE LET r == Get(arr, row)
             inserted == SubSeq(r, 1, col) \o Fill(ps, empty) \o SubSeq(r, col + 1, Len(r))
         IN  Ok(Set(arr, row, SubSeq(inserted, 1, Len(r))))

\* ----------------------------------------------------------------- Screen
Nul == "0"          \* the zero rune of make([]rune, n)
NilRegion == [set |-> FALSE, Start |-> 0, End |-> 0]
NilScreen == [isNil |-> TRUE]

\* newScreen + Screen.reset; the fields part_000 does not declare (Changes,
\* SavedCursor, ScrollRegion, MaxY, MaxX) start at their zero values.
newScreen(h, w) ==
    [isNil |-> FALSE, Height |-> h, Width |-> w,
     Content |-> Fill(h, Fill(w, Blank)),
     Format |-> Fill(h, Fill(w, DefaultFormat)),
     Changes |-> Fill(h, 0),
     Cursor |-> [Y |-> 0, X |-> 0, F |-> DefaultFormat],
     SavedCursor |-> [Y |-> 0, X |-> 0, F |-> DefaultFormat],
     ScrollRegion |-> NilRegion, MaxY |-> 0, MaxX |-> 0]

OkS(s) == [s |-> s, ok |-> TRUE]
PanicS(r) == [r EXCEPT !.ok = FALSE]

\* Screen.clear: the guard looks at row 0's length, the stores index row y.
clear(r, y, x, format) ==
    LET s == r.s IN
    IF ~r.ok THEN r
    ELSE IF y >= Len(s.Content) THEN r
    ELSE IF Len(s.Content) = 0 THEN PanicS(r)
    ELSE IF x >= Len(Get(s.Content, 0)) THEN r
    ELSE IF y < 0 \/ x < 0 \/ ~InRange(Get(s.Content, y), x) THEN PanicS(r)
    ELSE IF ~InRange(s.Format, y) \/ ~InRange(Get(s.Format, y), x) THEN PanicS(r)
    ELSE OkS([s EXCEPT !.Content = Set(@, y, Set(Get(@, y), x, Blank)),
                       !.Format = Set(@, y, Set(Get(@, y), x, format))])

\* for col := from; col < lim; col++ { v.clear(y, col, Format{}) }
RECURSIVE ClearLoop(_, _, _, _)
ClearLoop(r, y, col, lim) ==
    IF ~r.ok \/ col >= lim THEN r
    ELSE ClearLoop(clear(r, y, col, DefaultFormat), y, col + 1, lim)

\* resize, growing height: one pass of "for row := 0; row < n; row++"
RECURSIVE GrowRows(_, _, _)
GrowRows(r, row, n) ==
    IF ~r.ok \/ row >= n THEN r
    ELSE LET s == r.s
             appended == [s EXCEPT !.Content = Append(@, Fill(s.Width, Nul)),
                                   !.Format = Append(@, Fill(s.Width, DefaultFormat))]
         IN  GrowRows(ClearLoop(OkS(appended), s.Height + row, 0, s.Width), row + 1, n)

\* resize, growing width: one pass of "for i := range v.Content"
RECURSIVE WidenRows(_, _, _)
WidenRows(r, i, w) ==
    IF ~r.ok \/ i >= Len(r.s.Content) THEN r
    ELSE IF ~InRange(r.s.Format, i) THEN PanicS(r)
    ELSE LET s == r.s
             old == Get(s.Content, i)
             oldf == Get(s.Format, i)
             row == [j \in 1..w |-> IF j <= Len(old) THEN old[j] ELSE Nul]
             format == [j \in 1..w |-> IF j <= Len(oldf) THEN oldf[j] ELSE DefaultFormat]
             widened == [s EXCEPT !.Content = Set(@, i, row), !.Format = Set(@, i, format)]
         IN  WidenRows(ClearLoop(OkS(widened), i, s.Width, w), i + 1, w)

\* Re-slicing a slice that an earlier resize truncated re-exposes the cells
\* its backing array still holds; the model keeps no backing arrays, so these
\* calls are kept out of the enumerated inputs (see the Resize actions).
ResliceUp(s, h, w) ==
    \/ h < s.Height /\ h > Len(s.Content)
    \/ w < s.Width /\ \E i \in 1..(IF h < s.Height THEN Min(h, Len(s.Content)) ELSE Len(s.Content)) :
           w > Len(s.Content[i]) \/ w > Len(s.Format[i])

\* Screen.resize: Height and Width are read, never assigned.
ScreenResize(s, h, w) ==
    LET r1 == IF h > s.Height THEN GrowRows(OkS(s), 0, h - s.Height)
              ELSE IF h < s.Height
                   THEN OkS([s EXCEPT !.Content = SubSeq(@, 1, h), !.Format = SubSeq(@, 1, h)])
                   ELSE OkS(s)
        r2 == IF ~r1.ok THEN r1
              ELSE IF w > s.Width THEN WidenRows(r1, 0, w)
              ELSE IF w < s.Width
                   THEN OkS([r1.s EXCEPT
                          !.Content = [i \in 1..Len(@) |-> SubSeq(@[i], 1, w)],
                          !.Format = [i \in 1..Len(@) |-> SubSeq(@[i], 1, w)]])
                   ELSE r1
    IN  r2

\* ------------------------------------------- Screen methods not in src/
\* A terminal value in flight through one handler: the active screen, the
\* wrap flag, ok = FALSE once the handler has panicked, and the lines handed
\* to the onScrollback observer so far.
Term(s, w, log) == [s |-> s, wrap |-> w, ok |-> TRUE, log |-> log]
Crash(t) == [t EXCEPT !.ok = FALSE]

\* changed(y, cursor): bump row y's change counter.
changed(s, y) ==
    IF InRange(s.Changes, y) THEN [s EXCEPT !.Changes = Set(@, y, Get(@, y) + 1)] ELSE s

\* Auto-resize growth (spec 4.6): rows of spaces in the default format are
\* appended until the screen has h rows.
growY(s, h) ==
    IF h <= s.Height THEN s
    ELSE [s EXCEPT !.Height = h,
                   !.Content = @ \o Fill(h - Len(@), Fill(s.Width, Blank)),
                   !.Format = @ \o Fill(h - Len(@), Fill(s.Width, DefaultFormat)),
                   !.Changes = @ \o Fill(h - Len(@), 0)]

ensureHeight(s, h) == IF AutoResizeY THEN growY(s, h) ELSE s

\* Canvas.Paint / Insert / Delete on the expanded format rows (spec 3).
FormatPaint(fmt, y, x, f) ==
    IF InRange(fmt, y) /\ InRange(Get(fmt, y), x)
    THEN Set(fmt, y, Set(Get(fmt, y), x, f)) ELSE fmt

FormatInsert(fmt, y, x, f, n) ==
    IF ~InRange(fmt, y) \/ x < 0 \/ x > Len(Get(fmt, y)) \/ n <= 0 THEN fmt
    ELSE LET r == Get(fmt, y)
         IN  Set(fmt, y, SubSeq(SubSeq(r, 1, x) \o Fill(n, f) \o SubSeq(r, x + 1, Len(r)),
                                1, Len(r)))

FormatDelete(fmt, y, x, n) ==
    IF ~InRange(fmt, y) \/ x < 0 \/ x >= Len(Get(fmt, y)) \/ n <= 0 THEN fmt
    ELSE LET r == Get(fmt, y)
             m == Min(n, Len(r) - x)
         IN  Set(fmt, y, SubSeq(r, 1, x) \o SubSeq(r, x + m + 1, Len(r)) \o Fill(m, DefaultFormat))

\* paint(y, x, f, r) (spec 4.3 step 2): store the rune and its format and
\* bump the row's counter; auto-resize grows the grid to hold the cell, and a
\* cell outside a fixed grid is ignored (spec 7).
paint(s0, y, x, f, r) ==
    LET s1 == IF AutoResizeY /\ y >= 0 THEN growY(s0, y + 1) ELSE s0
        s2 == IF AutoResizeX /\ InRange(s1.Content, y) /\ x >= Len(Get(s1.Content, y))
              THEN [s1 EXCEPT
                     !.Content = Set(@, y, Get(@, y) \o Fill(x + 1 - Len(Get(@, y)), Blank)),
                     !.Format = Set(@, y, Get(@, y) \o Fill(x + 1 - Len(Get(@, y)), DefaultFormat))]
              ELSE s1
    IN  IF ~InRange(s2.Content, y) \/ ~InRange(Get(s2.Content, y), x) THEN s2
        ELSE changed([s2 EXCEPT !.Content = Set(@, y, Set(Get(@, y), x, r)),
                                !.Format = FormatPaint(@, y, x, f)], y)

\* moveAbs(y, x): the cursor is clamped into the grid (spec 3, 7); with
\* auto-resize the grid grows to the row instead and columns are unbounded.
moveAbs(s0, y, x) ==
    LET s1 == IF AutoResizeY /\ y >= 0 THEN growY(s0, y + 1) ELSE s0
        cy == Max(0, IF AutoResizeY THEN y ELSE Min(y, s1.Height - 1))
        cx == Max(0, IF AutoResizeX THEN x ELSE Min(x, s1.Width - 1))
    IN  [s1 EXCEPT !.Cursor.Y = cy, !.Cursor.X = cx]

moveRel(s, dy, dx) == moveAbs(s, s.Cursor.Y + dy, s.Cursor.X + dx)

\* --------------------------------------------------------------- Terminal
scrollRegion(s) ==
    IF ~s.ScrollRegion.set THEN [start |-> 0, end |-> s.Height - 1]
    ELSE [start |-> s.ScrollRegion.Start, end |-> s.ScrollRegion.End]

\* The three parallel arrays of one line operation: Content first, then
\* Format.Rows, then Changes; a panic in one stops the handler.
LineOp(t, c, f, ch) ==
    IF ~c.ok \/ ~f.ok \/ ~ch.ok THEN Crash(t)
    ELSE [t EXCEPT !.s.Content = c.arr, !.s.Format = f.arr, !.s.Changes = ch.arr]

BlankFormatRow(s) == Fill(s.Width, s.Cursor.F)   \* &Region{Size: v.Width, F: v.Cursor.F}

\* The observer call inside the loop is commented out in the source: the
\* loop body is empty and nothing is delivered.
scrollUpN(t, n) ==
    LET s == t.s
        sr == scrollRegion(s)
    IN  LineOp(t, scrollUp(s.Content, n, sr.start, sr.end, Blank),
                  scrollUpShallow(s.Format, n, sr.start, sr.end, BlankFormatRow(s)),
                  scrollUpShallow(s.Changes, n, sr.start, sr.end, 1))

scrollDownN(t, n) ==
    LET s == t.s
        sr == scrollRegion(s)
    IN  LineOp([t EXCEPT !.wrap = FALSE],
               scrollDown(s.Content, n, sr.start, sr.end, Blank),
               scrollDownShallow(s.Format, n, sr.start, sr.end, BlankFormatRow(s)),
               scrollDownShallow(s.Changes, n, sr.start, sr.end, 1))

TInsertLines(t, n) ==
    LET s == ensureHeight(t.s, t.s.Cursor.Y + n)
        sr == scrollRegion(s)
        y == s.Cursor.Y
    IN  IF y < sr.start \/ y > sr.end THEN [t EXCEPT !.s = s]
        ELSE LineOp([t EXCEPT !.s = s, !.wrap = FALSE],
                    insertLines(s.Content, y, n, sr.start, sr.end, Blank),
                    insertLinesShallow(s.Format, y, n, sr.start, sr.end, BlankFormatRow(s)),
                    insertLinesShallow(s.Changes, y, n, sr.start, sr.end, 1))

TDeleteLines(t, n) ==
    LET s == t.s
        sr == scrollRegion(s)
        y == s.Cursor.Y
    IN  IF y < sr.start \/ y > sr.end THEN t
        ELSE LineOp([t EXCEPT !.wrap = FALSE],
                    deleteLines(s.Content, y, n, sr.start, sr.end, Blank),
                    deleteLinesShallow(s.Format, y, n, sr.start, sr.end, BlankFormatRow(s)),
                    deleteLinesShallow(s.Changes, y, n, sr.start, sr.end, 1))

TInsertCharacters(t, n) ==
    LET s == t.s
        c == insertEmpties(s.Content, s.Cursor.Y, s.Cursor.X, n, Blank)
    IN  IF ~c.ok THEN Crash(t)
        ELSE [t EXCEPT !.s = changed([s EXCEPT !.Content = c.arr,
                  !.Format = FormatInsert(@, s.Cursor.Y, s.Cursor.X, s.Cursor.F, n)],
                  s.Cursor.Y)]

TDeleteCharacters(t, n) ==
    LET s == t.s
        c == deleteCharacters(s.Content, s.Cursor.Y, s.Cursor.X, n, Blank)
    IN  IF ~c.ok THEN Crash(t)
        ELSE [t EXCEPT !.wrap = FALSE,
                       !.s = changed([s EXCEPT !.Content = c.arr,
                                 !.Format = FormatDelete(@, s.Cursor.Y, s.Cursor.X, n)],
                                 s.Cursor.Y)]

\* for i := 0; i < n; i++ { v.Format.Paint(v.Cursor.Y, v.Cursor.X+i, v.Cursor.F) }
RECURSIVE PaintLoop(_, _, _, _, _, _)
PaintLoop(fmt, y, x, f, i, n) ==
    IF i >= n THEN fmt ELSE PaintLoop(FormatPaint(fmt, y, x + i, f), y, x, f, i + 1, n)

TEraseCharacters(t, n) ==
    LET s == t.s
        c == eraseCharacters(s.Content, s.Cursor.Y, s.Cursor.X, n, Blank)
    IN  IF ~c.ok THEN Crash(t)
        ELSE [t EXCEPT !.wrap = FALSE,
                       !.s = changed([s EXCEPT !.Content = c.arr,
                                 !.Format = PaintLoop(@, s.Cursor.Y, s.Cursor.X, s.Cursor.F, 0, n)],
                                 s.Cursor.Y)]

moveDown(t) ==
    LET s == t.s IN
    IF s.ScrollRegion.set /\ s.Cursor.Y = s.ScrollRegion.End THEN scrollUpN(t, 1)
    ELSE IF s.Cursor.Y = s.Height - 1 /\ ~AutoResizeY THEN scrollUpN(t, 1)
    ELSE [t EXCEPT !.s = moveRel(s, 1, 0)]

moveUp(t) ==
    LET s == t.s IN
    IF s.Cursor.Y = 0 \/ (s.ScrollRegion.set /\ s.Cursor.Y = s.ScrollRegion.Start)
    THEN scrollDownN(t, 1)
    ELSE [t EXCEPT !.s = moveRel(s, -1, 0)]

\* advance without the deferred wrap: the cursor always moves.
advanceEager(t) ==
    LET s == moveRel(t.s, 0, 1) IN [t EXCEPT !.s = changed(s, s.Cursor.Y)]

advance(t) ==
    IF ~AutoResizeX /\ t.s.Cursor.X = t.s.Width - 1 THEN [t EXCEPT !.wrap = TRUE]
    ELSE LET s == moveRel(t.s, 0, 1) IN [t EXCEPT !.s = changed(s, s.Cursor.Y)]

put(t, r) ==
    LET t1 == IF t.wrap
              THEN LET d == moveDown([t EXCEPT !.s.Cursor.X = 0])
                   IN  IF d.ok THEN [d EXCEPT !.wrap = FALSE] ELSE d
              ELSE t
        x == t1.s.Cursor.X
        y == t1.s.Cursor.Y
        painted == paint(t1.s, y, x, t1.s.Cursor.F, r)
        maxed == [painted EXCEPT !.MaxY = IF y > @ THEN y ELSE @,
                                 !.MaxX = IF x > @ THEN x ELSE @]
    IN  IF ~t1.ok THEN t1 ELSE advance([t1 EXCEPT !.s = maxed])

home(t, y, x) == [t EXCEPT !.wrap = FALSE, !.s = moveAbs(t.s, y, x)]

save(t) == [t EXCEPT !.s.SavedCursor = t.s.Cursor]

unsave(t) == [t EXCEPT !.s.Cursor = t.s.SavedCursor]

\* for x := x1; x <= rowX2; x++ { v.clear(y, x, f) }
RECURSIVE EraseCols(_, _, _, _, _)
EraseCols(r, y, x, rowX2, f) ==
    IF ~r.ok \/ x > rowX2 THEN r ELSE EraseCols(clear(r, y, x, f), y, x + 1, rowX2, f)

\* for y := y1; y <= y2; y++ { ... }
RECURSIVE EraseRows(_, _, _, _, _, _)
EraseRows(r, y, y2, x1, x2, f) ==
    IF ~r.ok \/ y > y2 THEN r
    ELSE IF Len(r.s.Content) <= y THEN EraseRows(r, y + 1, y2, x1, x2, f)
    ELSE IF x2 < 0 /\ y < 0 THEN PanicS(r)
    ELSE LET rowX2 == IF x2 < 0 THEN Len(Get(r.s.Content, y)) - 1 ELSE x2
         IN  EraseRows(EraseCols(r, y, x1, rowX2, f), y + 1, y2, x1, x2, f)

eraseRegion(t, y1, x1, y2, x2) ==
    LET ya == IF y1 > y2 /\ y2 > 0 THEN y2 ELSE y1
        yb == IF y1 > y2 /\ y2 > 0 THEN y1 ELSE y2
        xa == IF x1 > x2 /\ x2 > 0 THEN x2 ELSE x1
        xb == IF x1 > x2 /\ x2 > 0 THEN x1 ELSE x2
        r == EraseRows(OkS(t.s), ya, yb, xa, xb, t.s.Cursor.F)
    IN  IF r.ok THEN [t EXCEPT !.wrap = FALSE, !.s = r.s] ELSE Crash(t)

\* setScrollRegion / clearScrollRegion (spec 4.7): ignored when AppendOnly.
setScrollRegion(t, start, end) ==
    IF AppendOnly THEN t
    ELSE [t EXCEPT !.s.ScrollRegion = [set |-> TRUE, Start |-> start, End |-> end]]

clearScrollRegion(t) == [t EXCEPT !.s.ScrollRegion = NilRegion]

setFormat(t, f) == [t EXCEPT !.s.Cursor.F = f]

\* ---------------------------------------------------------------- actions
\* op records the last handler that ran and its arguments (n: a count,
\* a, b: rows and columns of a resize, a home or a scroll region, r: the rune
\* of a put; eraseRegion records (a, b) = (y1, x1) and y2, x2); fuel bounds the
\* length of a run; putRun counts the puts made since construction while
\* nothing but puts has run (-1 afterwards).
Cur == Term(Screen, wrap, scrollbackLog)
Op(name, n, a, b, r) == [name |-> name, n |-> n, a |-> a, b |-> b, r |-> r]

\* One handler run to completion on the active screen.  Every handler reads
\* fields of the embedded *Screen, so a nil active screen is a nil
\* dereference.  After a panic the terminal is not used again.
Commit(o, t) ==
    /\ ~panicked
    /\ fuel > 0
    /\ IF ~Screen.isNil /\ t.ok
       THEN /\ Screen' = t.s
            /\ wrap' = t.wrap
            /\ scrollbackLog' = t.log
            /\ panicked' = FALSE
       ELSE /\ panicked' = TRUE
            /\ UNCHANGED <<Screen, wrap, scrollbackLog>>
    /\ op' = o
    /\ fuel' = fuel - 1
    /\ putRun' = IF o.name = "put" /\ putRun >= 0 THEN putRun + 1 ELSE -1
    /\ UNCHANGED <<Alt, IsAlt, AutoResizeX, AutoResizeY, AppendOnly, onScrollback>>
    /\ UNCHANGED lockVars

Put == \E r \in Runes : Commit(Op("put", 0, 0, 0, r), put(Cur, r))
Home ==
    \E y \in 0..(MaxH - 1), x \in 0..(MaxW - 1) :
        Commit(Op("home", 0, y, x, ""), home(Cur, y, x))
MoveUp == Commit(Op("moveUp", 0, 0, 0, ""), moveUp(Cur))
MoveDown == Commit(Op("moveDown", 0, 0, 0, ""), moveDown(Cur))
Save == Commit(Op("save", 0, 0, 0, ""), save(Cur))
Unsave == Commit(Op("unsave", 0, 0, 0, ""), unsave(Cur))
SetFormat == \E f \in Formats : Commit(Op("setFormat", 0, 0, 0, ""), setFormat(Cur, f))
ScrollUp == \E n \in Counts : Commit(Op("scrollUp", n, 0, 0, ""), scrollUpN(Cur, n))
ScrollDown == \E n \in Counts : Commit(Op("scrollDown", n, 0, 0, ""), scrollDownN(Cur, n))
InsertLines == \E n \in Counts : Commit(Op("insertLines", n, 0, 0, ""), TInsertLines(Cur, n))
DeleteLines == \E n \in Counts : Commit(Op("deleteLines", n, 0, 0, ""), TDeleteLines(Cur, n))
InsertCharacters ==
    \E n \in Counts : Commit(Op("insertCharacters", n, 0, 0, ""), TInsertCharacters(Cur, n))
DeleteCharacters ==
    \E n \in Counts : Commit(Op("deleteCharacters", n, 0, 0, ""), TDeleteCharacters(Cur, n))
EraseCharacters ==
    \E n \in Counts : Commit(Op("eraseCharacters", n, 0, 0, ""), TEraseCharacters(Cur, n))
EraseRegion ==
    \E y1 \in 0..(MaxH - 1), x1 \in 0..(MaxW - 1) :
      \E y2 \in {y1, MaxH - 1}, x2 \in {-1, x1} :
        Commit([name |-> "eraseRegion", n |-> 0, a |-> y1, b |-> x1, r |-> "",
                y2 |-> y2, x2 |-> x2],
               eraseRegion(Cur, y1, x1, y2, x2))
SetScrollRegion ==
    \E start \in 0..(MaxH - 1), end \in 0..(MaxH - 1) :
      /\ ~Screen.isNil => (start < end /\ end <= Screen.Height - 1)
      /\ Commit(Op("setScrollRegion", 0, start, end, ""), setScrollRegion(Cur, start, end))
ClearScrollRegion == Commit(Op("clearScrollRegion", 0, 0, 0, ""), clearScrollRegion(Cur))

\* Terminal.swapAlt: the two pointers are exchanged, nothing is created.
SwapAlt ==
    /\ ~panicked
    /\ fuel > 0
    /\ IsAlt' = ~IsAlt
    /\ Screen' = Alt
    /\ Alt' = Screen
    /\ op' = Op("swapAlt", 0, 0, 0, "")
    /\ fuel' = fuel - 1
    /\ putRun' = -1
    /\ UNCHANGED <<AutoResizeX, AutoResizeY, AppendOnly, wrap, onScrollback,
                   scrollbackLog, panicked>>
    /\ UNCHANGED lockVars

\* Terminal.resize under Resize / ResizeX / ResizeY: the active screen, then
\* the other one when it exists; then the auto-resize flags.
DoResize(name, h, w, offX, offY) ==
    /\ ~panicked
    /\ fuel > 0
    /\ ~Screen.isNil => ~ResliceUp(Screen, h, w)
    /\ ~Alt.isNil => ~ResliceUp(Alt, h, w)
    /\ LET r == IF Screen.isNil THEN PanicS(OkS(Screen)) ELSE ScreenResize(Screen, h, w)
           a == IF Alt.isNil THEN OkS(Alt) ELSE ScreenResize(Alt, h, w)
       IN  IF r.ok /\ a.ok
           THEN /\ Screen' = r.s
                /\ Alt' = a.s
                /\ AutoResizeX' = IF offX THEN FALSE ELSE AutoResizeX
                /\ AutoResizeY' = IF offY THEN FALSE ELSE AutoResizeY
                /\ panicked' = FALSE
           ELSE /\ panicked' = TRUE
                /\ UNCHANGED <<Screen, Alt, AutoResizeX, AutoResizeY>>
    /\ op' = Op(name, 0, h, w, "")
    /\ fuel' = fuel - 1
    /\ putRun' = -1
    /\ UNCHANGED <<IsAlt, AppendOnly, wrap, onScrollback, scrollbackLog>>
    /\ UNCHANGED lockVars

Resize == \E rows \in 1..MaxH, cols \in 1..MaxW : DoResize("Resize", rows, cols, TRUE, TRUE)
\* ResizeX that switches both auto-resize flags off, as Resize does.
ResizeXBoth ==
    \E cols \in 1..MaxW :
        DoResize("ResizeX", IF Screen.isNil THEN 0 ELSE Screen.Height, cols, TRUE, TRUE)
ResizeX ==
    \E cols \in 1..MaxW :
        DoResize("ResizeX", IF Screen.isNil THEN 0 ELSE Screen.Height, cols, TRUE, FALSE)
ResizeY ==
    \E rows \in 1..MaxH :
        DoResize("ResizeY", rows, IF Screen.isNil THEN 0 ELSE Screen.Width, FALSE, TRUE)

OnScrollback ==
    /\ ~panicked
    /\ fuel > 0
    /\ ~onScrollback
    /\ onScrollback' = TRUE
    /\ op' = Op("OnScrollback", 0, 0, 0, "")
    /\ fuel' = fuel - 1
    /\ putRun' = -1
    /\ UNCHANGED <<Screen, Alt, IsAlt, AutoResizeX, AutoResizeY, AppendOnly, wrap,
                   scrollbackLog, panicked>>
    /\ UNCHANGED lockVars

\* AppendOnly is an exported field the embedding program assigns.
SetAppendOnly ==
    /\ ~panicked
    /\ fuel > 0
    /\ ~AppendOnly
    /\ AppendOnly' = TRUE
    /\ op' = Op("AppendOnly", 0, 0, 0, "")
    /\ fuel' = fuel - 1
    /\ putRun' = -1
    /\ UNCHANGED <<Screen, Alt, IsAlt, AutoResizeX, AutoResizeY, wrap, onScrollback,
                   scrollbackLog, panicked>>
    /\ UNCHANGED lockVars

\* ------------------------------------- Resize and OnResize, step by step
\* Each thread runs one call at a time: pc is its position in the function
\* body, frame its arguments and locals (f: the callback it registers or the
\* one it read from v.onResize; dims: the rows and columns the grid had
\* inside its critical section; sent: the arguments of the callback
\* invocation it made).
Threads == 1..NThreads
NoCallback == "nil"
Callbacks == {"f"}
Frame(name, rows, cols, f) ==
    [name |-> name, rows |-> rows, cols |-> cols, f |-> f, dims |-> <<>>, sent |-> <<>>]
Dims(s) == <<Len(s.Content), IF Len(s.Content) = 0 THEN 0 ELSE Len(s.Content[1])>>

\* Rows and columns asked for by the concurrent calls: one, or the largest.
\* No interleaving of such calls re-slices a truncated slice upward (see
\* ResliceUp): a grid keeps at least one row and one column once it has
\* them, and Height and Width are never above the largest.
LockRows == {1, MaxH}
LockCols == {1, MaxW}

\* A call starts: the arguments are fixed, nothing is locked yet.  Threads
\* are interchangeable, so a thread makes its first call only after every
\* lower-numbered thread has made one.
Begin(t, fr) ==
    /\ ~panicked
    /\ fuel > 0
    /\ pc[t] = "idle"
    /\ \A u \in Threads : u < t => frame[u].name # ""
    /\ pc' = [pc EXCEPT ![t] = IF fr.name = "OnResize" THEN "notifyFirst" ELSE "lock"]
    /\ frame' = [frame EXCEPT ![t] = fr]
    /\ op' = Op(fr.name, 0, fr.rows, fr.cols, "")
    /\ fuel' = fuel - 1
    /\ putRun' = -1
    /\ UNCHANGED <<Screen, Alt, IsAlt, AutoResizeX, AutoResizeY, AppendOnly, wrap,
                   onScrollback, scrollbackLog, panicked, mut, onResize, notified>>

CallResize(t) ==
    \E rows \in LockRows, cols \in LockCols :
        Begin(t, Frame("Resize", rows, cols, NoCallback))
CallResizeX(t) == \E cols \in LockCols : Begin(t, Frame("ResizeX", 0, cols, NoCallback))
CallResizeY(t) == \E rows \in LockRows : Begin(t, Frame("ResizeY", rows, 0, NoCallback))
CallOnResize(t) == \E f \in Callbacks : Begin(t, Frame("OnResize", 0, 0, f))

\* v.mut.Lock()
Lock(t) ==
    /\ pc[t] = "lock"
    /\ mut = 0
    /\ mut' = t
    /\ pc' = [pc EXCEPT ![t] = IF frame[t].name = "OnResize" THEN "store" ELSE "resize"]
    /\ UNCHANGED <<Screen, Alt, IsAlt, AutoResizeX, AutoResizeY, AppendOnly, wrap,
                   onScrollback, scrollbackLog, panicked, op, fuel, putRun,
                   frame, onResize, notified>>

\* v.resize(...); the auto-resize flags; f := v.onResize -- all between Lock
\* and Unlock.  A panic in resize leaves the function with the mutex held
\* (Unlock is not deferred).
ResizeLocked(t) ==
    /\ pc[t] = "resize"
    /\ LET fr == frame[t]
           h == IF fr.name = "ResizeX" THEN Screen.Height ELSE fr.rows
           w == IF fr.name = "ResizeY" THEN Screen.Width ELSE fr.cols
           r == ScreenResize(Screen, h, w)
           a == IF Alt.isNil THEN OkS(Alt) ELSE ScreenResize(Alt, h, w)
       IN  IF r.ok /\ a.ok
           THEN /\ Screen' = r.s
                /\ Alt' = a.s
                /\ AutoResizeX' = IF fr.name = "ResizeY" THEN AutoResizeX ELSE FALSE
                /\ AutoResizeY' = IF fr.name = "ResizeX" THEN AutoResizeY ELSE FALSE
                /\ frame' = [frame EXCEPT ![t].f = onResize, ![t].dims = Dims(r.s)]
                /\ pc' = [pc EXCEPT ![t] = "unlock"]
                /\ panicked' = FALSE
           ELSE /\ panicked' = TRUE
                /\ pc' = [pc EXCEPT ![t] = "panic"]
                /\ UNCHANGED <<Screen, Alt, AutoResizeX, AutoResizeY, frame>>
    /\ UNCHANGED <<IsAlt, AppendOnly, wrap, onScrollback, scrollbackLog, op, fuel,
                   putRun, mut, onResize, notified>>

\* v.onResize = f
Store(t) ==
    /\ pc[t] = "store"
    /\ onResize' = frame[t].f
    /\ frame' = [frame EXCEPT ![t].dims = Dims(Screen)]
    /\ pc' = [pc EXCEPT ![t] = "unlock"]
    /\ UNCHANGED <<Screen, Alt, IsAlt, AutoResizeX, AutoResizeY, AppendOnly, wrap,
                   onScrollback, scrollbackLog, panicked, op, fuel, putRun,
                   mut, notified>>

\* Unlock that moves on without releasing the mutex.
UnlockLate(t) ==
    /\ pc[t] = "unlock"
    /\ pc' = [pc EXCEPT ![t] = IF frame[t].name = "OnResize" THEN "idle" ELSE "notify"]
    /\ UNCHANGED <<Screen, Alt, IsAlt, AutoResizeX, AutoResizeY, AppendOnly, wrap,
                   onScrollback, scrollbackLog, panicked, op, fuel, putRun,
                   mut, frame, onResize, notified>>

\* v.mut.Unlock(); OnResize returns after it.
Unlock(t) ==
    /\ pc[t] = "unlock"
    /\ mut' = 0
    /\ pc' = [pc EXCEPT ![t] = IF frame[t].name = "OnResize" THEN "idle" ELSE "notify"]
    /\ UNCHANGED <<Screen, Alt, IsAlt, AutoResizeX, AutoResizeY, AppendOnly, wrap,
                   onScrollback, scrollbackLog, panicked, op, fuel, putRun,
                   frame, onResize, notified>>

\* One invocation of callback f with (rows, cols) by thread t.
Invoke(t, f, rows, cols) ==
    /\ notified' = Append(notified, [f |-> f, rows |-> rows, cols |-> cols, by |-> t])
    /\ frame' = [frame EXCEPT ![t].sent = <<rows, cols>>]

\* if f != nil { f(rows, cols) } (ResizeX passes v.Height, ResizeY v.Width,
\* read here, after Unlock); then the function returns.
Notify(t) ==
    /\ pc[t] = "notify"
    /\ LET fr == frame[t]
       IN  IF fr.f = NoCallback THEN UNCHANGED <<notified, frame>>
           ELSE Invoke(t, fr.f,
                       IF fr.name = "ResizeX" THEN Screen.Height ELSE fr.rows,
                       IF fr.name = "ResizeY" THEN Screen.Width ELSE fr.cols)
    /\ pc' = [pc EXCEPT ![t] = "idle"]
    /\ UNCHANGED <<Screen, Alt, IsAlt, AutoResizeX, AutoResizeY, AppendOnly, wrap,
                   onScrollback, scrollbackLog, panicked, op, fuel, putRun,
                   mut, onResize>>

\* OnResize: f(v.Height, v.Width) before the mutex is taken.
NotifyFirst(t) ==
    /\ pc[t] = "notifyFirst"
    /\ Invoke(t, frame[t].f, Screen.Height, Screen.Width)
    /\ pc' = [pc EXCEPT ![t] = "lock"]
    /\ UNCHANGED <<Screen, Alt, IsAlt, AutoResizeX, AutoResizeY, AppendOnly, wrap,
                   onScrollback, scrollbackLog, panicked, op, fuel, putRun,
                   mut, onResize>>

\* NewTerminal(rows, cols), or NewAutoResizingTerminal().
NewTerminal(budget) ==
    /\ \E auto \in BOOLEAN :
         /\ AutoResizeX = auto
         /\ AutoResizeY = auto
         /\ IF auto THEN Screen = newScreen(0, 0)
            ELSE \E rows \in 1..MaxH, cols \in 1..MaxW : Screen = newScreen(rows, cols)
    /\ Alt = NilScreen
    /\ IsAlt = FALSE
    /\ AppendOnly = FALSE
    /\ wrap = FALSE
    /\ onScrollback = FALSE
    /\ scrollbackLog = <<>>
    /\ panicked = FALSE
    /\ op = Op("new", 0, 0, 0, "")
    /\ fuel = budget
    /\ putRun = 0
    /\ mut = 0
    /\ pc = [t \in Threads |-> "idle"]
    /\ frame = [t \in Threads |-> Frame("", 0, 0, NoCallback)]
    /\ onResize = NoCallback
    /\ notified = <<>>

Init == NewTerminal(MaxSteps)
InitWrap == NewTerminal(MaxWrapSteps)

NextWrap ==
    \/ Put \/ Home \/ MoveUp \/ MoveDown \/ Save \/ Unsave \/ SetFormat
    \/ SetScrollRegion \/ ClearScrollRegion

NextEdit ==
    \/ ScrollUp \/ ScrollDown \/ InsertLines \/ DeleteLines
    \/ InsertCharacters \/ DeleteCharacters \/ EraseCharacters \/ EraseRegion

Next ==
    \/ NextWrap
    \/ NextEdit
    \/ SwapAlt \/ Resize \/ ResizeX \/ ResizeY \/ OnScrollback \/ SetAppendOnly

\* Every handler, runs of at most MaxSteps calls.
Spec == Init /\ [][Next]_vars
\* Printing and cursor motion only, runs of at most MaxWrapSteps calls.
SpecWrap == InitWrap /\ [][NextWrap]_vars
\* Printing, cursor motion and editing, no resize and no screen swap.
NextPrintEdit == NextWrap \/ NextEdit
SpecEdit == Init /\ [][NextPrintEdit]_vars
\* The three manual resizes only.
NextResize == Resize \/ ResizeX \/ ResizeY
SpecResize == Init /\ [][NextResize]_vars
\* Resize, ResizeX, ResizeY and OnResize called from NThreads threads, at
\* most MaxCalls calls in all, every interleaving of their steps.
\* The terminal is auto-resizing, the smallest or the largest.
InitLock ==
    /\ NewTerminal(MaxCalls)
    /\ <<Screen.Height, Screen.Width>> \in {<<0, 0>>, <<1, 1>>, <<MaxH, MaxW>>}
NextLock ==
    \E t \in Threads :
        \/ CallResize(t) \/ CallResizeX(t) \/ CallResizeY(t) \/ CallOnResize(t)
        \/ Lock(t) \/ ResizeLocked(t) \/ Store(t) \/ Unlock(t)
        \/ Notify(t) \/ NotifyFirst(t)
SpecLock == InitLock /\ [][NextLock]_vars

\* ----------------------------------------------------------------- claims
Cell(s, y, x) ==
    IF InRange(s.Content, y) /\ InRange(Get(s.Content, y), x)
    THEN Get(Get(s.Content, y), x) ELSE "none"
Fixed == ~Screen.isNil /\ ~AutoResizeX /\ ~AutoResizeY
AtBottom(s) ==
    \/ s.ScrollRegion.set /\ s.Cursor.Y = s.ScrollRegion.End
    \/ s.Cursor.Y = s.Height - 1

\* One put step of C1.  minW and minH are the least width and height the
\* statement is made for; rowBelow says whether the wrapping put is said to
\* land on the row below in every case, or only where moveDown moves.
C1_Step(minW, minH, rowBelow) ==
    LET W == Screen.Width
        c == Screen.Cursor
        d == Screen'.Cursor
    IN  (op'.name = "put" /\ fuel' = fuel - 1 /\ ~panicked' /\ Fixed /\ W >= minW) =>
          /\ (~wrap /\ c.X = W - 1) =>
                /\ d.Y = c.Y /\ d.X = W - 1 /\ wrap'
                /\ Cell(Screen', c.Y, W - 1) = op'.r
          /\ wrap =>
                /\ d.Y = (IF ~rowBelow /\ AtBottom(Screen) THEN c.Y ELSE c.Y + 1)
                /\ d.X = 1 /\ ~wrap'
                /\ Cell(Screen', d.Y, 0) = op'.r
          /\ (putRun' = W + 1 /\ Screen.Height >= minH) =>
                /\ \A x \in 0..(W - 1) : Cell(Screen', 0, x) \in Runes
                /\ Cell(Screen', 1, 0) = op'.r
                /\ d.Y = 1 /\ d.X = 1 /\ ~wrap'

\* C1 as stated: on a terminal of any width W with autoResizeX off, a put
\* that paints column W-1 leaves the cursor there and sets wrap; the next put
\* moves the cursor to column 0 of the row below, clears wrap, paints there
\* and ends at column 1; W+1 puts from (0,0) fill row 0, place the last rune
\* at (1,0) and leave the cursor at (1,1) with wrap false.
C1_Original == [][C1_Step(1, 1, TRUE)]_vars

\* C1 (amended): on a terminal of width W >= 2 with auto-resize off, a put
\* that paints column W-1 leaves the cursor there and sets wrap; the next put
\* moves the cursor to column 0 and applies moveDown (one row down, or the
\* same row after a scroll when the cursor is on the last row or on the end
\* row of the scroll region), clears wrap, paints there and ends at column 1.
\* With at least two rows, W+1 puts from (0,0) on a new terminal fill row 0,
\* place the last rune at (1,0) and leave the cursor at (1,1), wrap false.
C1_DeferredWrap == [][C1_Step(2, 2, FALSE)]_vars

C1_Witness ==
    /\ Fixed /\ ~panicked
    /\ Screen.Width >= 2 /\ Screen.Height >= 2
    /\ putRun = Screen.Width + 1
    /\ op.name = "put"
    /\ Cell(Screen, 0, Screen.Width - 1) \in Runes
    /\ Cell(Screen, 1, 0) = op.r
    /\ Screen.Cursor.Y = 1 /\ Screen.Cursor.X = 1 /\ ~wrap

ResizeOps == {"Resize", "ResizeX", "ResizeY"}
LineOps == {"scrollUp", "scrollDown", "insertLines", "deleteLines"}
CharOps == {"insertCharacters", "deleteCharacters", "eraseCharacters"}
Stepped == fuel' = fuel - 1
GridSane(s) ==
    /\ Len(s.Content) = s.Height
    /\ Len(s.Format) = s.Height
    /\ \A i \in 1..Len(s.Content) : Len(s.Content[i]) = s.Width
    /\ \A i \in 1..Len(s.Format) : Len(s.Format[i]) = s.Width

\* C2: with both auto-resize flags off the cursor addresses a cell of the
\* grid after every operation: 0 <= cursor.y < height and 0 <= cursor.x <
\* width, the height and width being the rows and columns the grid has, and
\* after a resize the ones just requested.
C2_CursorInBounds ==
    (Fixed /\ ~panicked) =>
        /\ 0 <= Screen.Cursor.Y /\ Screen.Cursor.Y < Len(Screen.Content)
        /\ 0 <= Screen.Cursor.X /\ Screen.Cursor.X < Len(Get(Screen.Content, Screen.Cursor.Y))
        /\ op.name \in ResizeOps => (Screen.Cursor.Y < op.a /\ Screen.Cursor.X < op.b)

C3_Step ==
    (onScrollback /\ Stepped /\ ~panicked' /\ ~Screen.isNil /\ GridSane(Screen)) =>
        /\ (op'.name = "scrollUp" /\ ~Screen.ScrollRegion.set /\ op'.n <= Screen.Height) =>
              scrollbackLog' = scrollbackLog \o SubSeq(Screen.Content, 1, op'.n)
        /\ (op'.name = "scrollUp" /\ Screen.ScrollRegion.set) =>
              scrollbackLog' = scrollbackLog
        /\ (op'.name = "moveDown" /\ ~Screen.ScrollRegion.set /\ ~AutoResizeY
              /\ Screen.Cursor.Y = Screen.Height - 1) =>
              scrollbackLog' = scrollbackLog \o <<Screen.Content[1]>>

\* C3: with an observer registered, a full-screen scrollUp(n) hands the
\* observer the n evicted rows top-down as they were before the scroll, a
\* scroll inside a scroll region hands it nothing, and moveDown on the last
\* row hands it the old row 0.
C3_ScrollbackEmitted == [][C3_Step]_vars

\* C4: a swapAlt step exchanges the two screens exactly (so a second one
\* restores the active screen, the other screen and IsAlt) and never leaves
\* the terminal without an active screen.
C4_SwapAltInvolution ==
    [][(op'.name = "swapAlt" /\ Stepped) =>
          /\ ~Screen'.isNil
          /\ Alt' = Screen /\ Screen' = Alt /\ IsAlt' = ~IsAlt]_vars

\* C5: a put right after swapping to the alternate screen paints at the
\* alternate screen's own cursor, whatever the main screen's wrap state was,
\* and the main screen is kept as it was while the alternate is active.
C5_AltIsolation ==
    [][(op.name = "swapAlt" /\ IsAlt /\ op'.name = "put" /\ Stepped) =>
          /\ ~panicked'
          /\ Cell(Screen', Screen.Cursor.Y, Screen.Cursor.X) = op'.r
          /\ Alt' = Alt]_vars

\* C6: after Resize(h,w), ResizeX(w) or ResizeY(h) the active screen has the
\* requested Height and Width, Height content rows, and every content and
\* format row Width long; an alternate screen has the same dimensions.
C6_Dimensions ==
    (op.name \in ResizeOps /\ ~panicked) =>
        /\ Screen.Height = op.a /\ Screen.Width = op.b
        /\ GridSane(Screen)
        /\ ~Alt.isNil => (Alt.Height = op.a /\ Alt.Width = op.b /\ GridSane(Alt))

\* C7: moveDown on the last row, with autoResizeY off and the cursor not on
\* the end row of a scroll region, scrolls the whole screen up by one line
\* (old rows 1..height-1 move up, the last row becomes blank) and leaves the
\* cursor where it is.
C7_MoveDownAtBottom ==
    [][(op'.name = "moveDown" /\ Stepped /\ ~panicked' /\ ~Screen.isNil /\ ~AutoResizeY
          /\ GridSane(Screen)
          /\ Screen.Cursor.Y = Screen.Height - 1
          /\ ~(Screen.ScrollRegion.set /\ Screen.Cursor.Y = Screen.ScrollRegion.End)) =>
          /\ Screen'.Content = Tail(Screen.Content) \o <<Fill(Screen.Width, Blank)>>
          /\ Screen'.Cursor = Screen.Cursor]_vars

\* C8: scrollUp, scrollDown, insertLines, deleteLines, insertCharacters,
\* deleteCharacters and eraseCharacters complete for every count n >= 1 on
\* every grid: none of them indexes outside the grid (panics).
C8_Total ==
    (op.name \in LineOps \cup CharOps /\ ~Screen.isNil /\ GridSane(Screen)) => ~panicked

AsIfNoRegion(t) == [t EXCEPT !.s.ScrollRegion = NilRegion]
C9_Expected(o) ==
    LET t == AsIfNoRegion(Cur)
        r == CASE o.name = "moveDown" -> moveDown(t)
               [] o.name = "moveUp" -> moveUp(t)
               [] o.name = "scrollUp" -> scrollUpN(t, o.n)
               [] o.name = "scrollDown" -> scrollDownN(t, o.n)
               [] o.name = "insertLines" -> TInsertLines(t, o.n)
               [] o.name = "deleteLines" -> TDeleteLines(t, o.n)
    IN  [r EXCEPT !.s.ScrollRegion = Screen.ScrollRegion]

\* C9: while appendOnly is true, moveDown, moveUp, scrollUp, scrollDown,
\* insertLines and deleteLines act as if no scroll region were set, also
\* when a region was stored before appendOnly became true.
C9_AppendOnlyIgnoresRegion ==
    [][(AppendOnly /\ op'.name \in LineOps \cup {"moveDown", "moveUp"} /\ Stepped
          /\ ~Screen.isNil /\ GridSane(Screen)) =>
          /\ panicked' = ~C9_Expected(op').ok
          /\ ~panicked' => (Screen' = C9_Expected(op').s /\ wrap' = C9_Expected(op').wrap)]_vars

\* C10: whenever an operation changes the runes or formats stored at a row
\* index, the change counter at that index is strictly greater afterwards.
C10_ChangesMonotone ==
    [][(op'.name \in LineOps \cup CharOps \cup {"put", "eraseRegion"} /\ Stepped
          /\ ~panicked' /\ ~Screen.isNil /\ GridSane(Screen)) =>
          \A i \in 1..Min(Len(Screen.Content), Len(Screen'.Content)) :
              (Screen'.Content[i] # Screen.Content[i] \/ Screen'.Format[i] # Screen.Format[i])
                  => Screen'.Changes[i] > Screen.Changes[i]]_vars

\* Every format row is as long as the content row it describes.
RowsAgree(s) ==
    /\ Len(s.Format) = Len(s.Content)
    /\ \A i \in 1..Len(s.Content) : Len(s.Format[i]) = Len(s.Content[i])

\* C11: after any sequence of put, scrollUp, scrollDown, insertLines,
\* deleteLines and character edits (no resize), on a fixed-width and on an
\* auto-resizing terminal, every row's format cells (the sum of its region
\* sizes) number exactly the cells of that row's content.
C11_FormatRowAgreement == (~Screen.isNil /\ ~panicked) => RowsAgree(Screen)

\* C12: a set scroll region satisfies 0 <= start <= end <= height-1 in every
\* state, also after a resize that shrinks the screen, and the end row it
\* names is a row the grid has.
C12_RegionInBounds ==
    (~Screen.isNil /\ ~panicked /\ Screen.ScrollRegion.set) =>
        /\ 0 <= Screen.ScrollRegion.Start
        /\ Screen.ScrollRegion.Start <= Screen.ScrollRegion.End
        /\ Screen.ScrollRegion.End <= Screen.Height - 1
        /\ Screen.ScrollRegion.End <= Len(Screen.Content) - 1

\* C14: a manual resize switches off exactly the auto-resize flag of the
\* axis it sets: Resize(h,w) leaves both flags false, ResizeX(w) leaves
\* AutoResizeX false and AutoResizeY as it was, ResizeY(h) leaves
\* AutoResizeY false and AutoResizeX as it was.
C14_ResizeFlags ==
    [][(Stepped /\ ~panicked') =>
          /\ op'.name = "Resize" => (~AutoResizeX' /\ ~AutoResizeY')
          /\ op'.name = "ResizeX" => (~AutoResizeX' /\ AutoResizeY' = AutoResizeY)
          /\ op'.name = "ResizeY" => (~AutoResizeY' /\ AutoResizeX' = AutoResizeX)]_vars

C14_Witness ==
    /\ op.name = "ResizeX" /\ ~panicked
    /\ ~AutoResizeX /\ AutoResizeY

\* Row i (0-based) of s: its runes and its formats.
Row(s, i) == <<Get(s.Content, i), Get(s.Format, i)>>
HasRow(s, i) == InRange(s.Content, i) /\ InRange(s.Format, i)
\* Row i of s is all spaces and all its format cells are f.
BlankRow(s, i, f) ==
    /\ HasRow(s, i)
    /\ \A j \in 1..Len(Get(s.Content, i)) : Get(s.Content, i)[j] = Blank
    /\ \A j \in 1..Len(Get(s.Format, i)) : Get(s.Format, i)[j] = f

C15_Step ==
    LET sr == scrollRegion(Screen)
        y == Screen.Cursor.Y
        n == op'.n
    IN  (op'.name = "insertLines" /\ Stepped /\ ~Screen.isNil) =>
          /\ (sr.start <= y /\ y <= sr.end /\ n >= 1 /\ n <= sr.end - y + 1) =>
                /\ ~panicked'
                /\ ~wrap'
                /\ scrollbackLog' = scrollbackLog
                /\ Len(Screen'.Content) = Len(Screen.Content)
                /\ \A i \in 0..(Len(Screen.Content) - 1) :
                      IF i < y \/ i > sr.end THEN HasRow(Screen', i) /\ Row(Screen', i) = Row(Screen, i)
                      ELSE IF i < y + n THEN BlankRow(Screen', i, Screen.Cursor.F)
                      ELSE HasRow(Screen', i) /\ Row(Screen', i) = Row(Screen, i - n)
          /\ (y < sr.start \/ y > sr.end) =>
                /\ ~panicked'
                /\ \A i \in 0..(Len(Screen.Content) - 1) :
                      HasRow(Screen', i) /\ Row(Screen', i) = Row(Screen, i)

\* C15: with the cursor row y inside the active range [start,end] and
\* 1 <= n <= end-y+1, insertLines(n) moves old rows [y, end-n] to rows
\* [y+n, end], makes rows [y, y+n-1] blank with the cursor format, hands
\* nothing to the scrollback observer, leaves rows above y and below end as
\* they were and clears wrap; with the cursor row outside [start,end] it
\* changes no row.
C15_InsertLines == [][C15_Step]_vars

C16_Step ==
    LET sr == scrollRegion(Screen)
        y == Screen.Cursor.Y
    IN  (op'.name \in LineOps /\ Stepped /\ ~panicked' /\ ~Screen.isNil
           /\ GridSane(Screen) /\ Len(Screen.Changes) = Screen.Height) =>
          \A i \in 0..(Screen.Height - 1) :
              (\/ i < sr.start
               \/ i > sr.end
               \/ op'.name \in {"insertLines", "deleteLines"} /\ i < y) =>
                 /\ HasRow(Screen', i) /\ InRange(Screen'.Changes, i)
                 /\ Row(Screen', i) = Row(Screen, i)
                 /\ Get(Screen'.Changes, i) = Get(Screen.Changes, i)

\* C16: for every n >= 1, also one larger than the rows left in the range,
\* scrollUp(n) and scrollDown(n) leave the content, the formats and the
\* change counter of every row outside the active range [start,end] as they
\* were, and insertLines(n) and deleteLines(n) also those of every row above
\* the cursor row.
C16_RegionConfinement == [][C16_Step]_vars

C17_Step ==
    LET y == Screen.Cursor.Y
        x == Screen.Cursor.X
        n == op'.n
        old == Get(Screen.Content, y)
        W == Len(old)
        m == Min(n, W - x)
    IN  (op'.name = "deleteCharacters" /\ Stepped /\ ~Screen.isNil /\ n >= 1
           /\ InRange(Screen.Content, y) /\ 0 <= x /\ x < Len(Get(Screen.Content, y))) =>
          /\ ~panicked'
          /\ Len(Screen'.Content) = Len(Screen.Content)
          /\ \A i \in 0..(Len(Screen.Content) - 1) :
                i # y => Get(Screen'.Content, i) = Get(Screen.Content, i)
          /\ Len(Get(Screen'.Content, y)) = W
          /\ \A c \in 0..(W - 1) :
                Get(Get(Screen'.Content, y), c) =
                    (IF c < x THEN Get(old, c)
                     ELSE IF c < W - m THEN Get(old, c + m)
                     ELSE Blank)

\* C17: on a row of width W with the cursor at column x and any n >= 1, with
\* m = min(n, W-x), deleteCharacters(n) leaves the cells of columns [0, x)
\* as they were, sets each cell x+i, 0 <= i < W-x-m, to the old cell x+i+m,
\* sets the cells of [W-m, W) to space, keeps the row W cells long and
\* changes no other row.
C17_DeleteCharacters == [][C17_Step]_vars

C18_Step ==
    LET o == op'
        f == Screen.Cursor.F
        Inside(i, c) ==
            /\ o.a <= i /\ i <= o.y2
            /\ o.b <= c
            /\ c <= (IF o.x2 < 0 THEN Len(Get(Screen.Content, i)) - 1 ELSE o.x2)
    IN  (o.name = "eraseRegion" /\ Stepped /\ ~Screen.isNil /\ RowsAgree(Screen)) =>
          /\ ~panicked'
          /\ ~wrap'
          /\ Screen'.Cursor = Screen.Cursor
          /\ Len(Screen'.Content) = Len(Screen.Content)
          /\ RowsAgree(Screen')
          /\ \A i \in 0..(Len(Screen.Content) - 1) :
                /\ Len(Get(Screen'.Content, i)) = Len(Get(Screen.Content, i))
                /\ \A c \in 0..(Len(Get(Screen.Content, i)) - 1) :
                      /\ Get(Get(Screen'.Content, i), c) =
                            (IF Inside(i, c) THEN Blank ELSE Get(Get(Screen.Content, i), c))
                      /\ Get(Get(Screen'.Format, i), c) =
                            (IF Inside(i, c) THEN f ELSE Get(Get(Screen.Format, i), c))

\* C18: eraseRegion(y1,x1,y2,x2) sets, in every existing row y of [y1,y2],
\* exactly the cells of columns [x1,x2] (a negative x2 meaning that row's own
\* last column, also when rows differ in length) to space in the cursor
\* format, leaves every other cell and the cursor where they were, clears
\* wrap, and never indexes a cell outside the row it is erasing (no panic).
C18_EraseRegion == [][C18_Step]_vars

\* moveDown and moveUp take their scrolling branch (terminal.go:603, 607, 618).
MoveDownScrolls(s) ==
    \/ s.ScrollRegion.set /\ s.Cursor.Y = s.ScrollRegion.End
    \/ s.Cursor.Y = s.Height - 1 /\ ~AutoResizeY
MoveUpScrolls(s) ==
    s.Cursor.Y = 0 \/ (s.ScrollRegion.set /\ s.Cursor.Y = s.ScrollRegion.Start)

\* C19: after home, unsave, and a moveUp or moveDown that scrolls, the wrap
\* flag is false, so the put that follows paints at the cursor position the
\* operation left and not at column 0 of the next row.  (A moveUp or
\* moveDown that moves the cursor goes through moveRel.)
C19_MovementClearsWrap ==
    [][(Stepped /\ ~panicked' /\ ~Screen.isNil
          /\ \/ op'.name \in {"home", "unsave"}
             \/ op'.name = "moveDown" /\ MoveDownScrolls(Screen)
             \/ op'.name = "moveUp" /\ MoveUpScrolls(Screen))
          => ~wrap']_vars

C13_Step ==
    \* no callback invocation by a thread that holds the mutex
    /\ notified' # notified =>
          \E t \in Threads : /\ pc[t] \in {"notify", "notifyFirst"}
                             /\ pc'[t] # pc[t]
                             /\ mut # t
    /\ \A t \in Threads : pc'[t] \in {"notify", "notifyFirst"} => mut' # t
    \* the grid and the auto-resize flags change only under the mutex
    /\ (Screen' # Screen \/ Alt' # Alt \/ AutoResizeX' # AutoResizeX
          \/ AutoResizeY' # AutoResizeY \/ onResize' # onResize) =>
          /\ mut \in Threads
          /\ mut' = mut
          /\ pc[mut] \in {"resize", "store"}
          /\ pc'[mut] = "unlock"
    \* a thread that has returned does not hold the mutex
    /\ \A t \in Threads : pc'[t] = "idle" => mut' # t

\* C13: in every interleaving of Resize, ResizeX, ResizeY and OnResize calls
\* from several threads, no invocation of a resize callback happens while
\* the invoking thread holds the terminal mutex, every change Resize,
\* ResizeX and ResizeY make to the grid and the flags happens while the
\* calling thread holds it, and a call that has returned has released it.
C13_CallbacksOutsideLock == [][C13_Step]_vars

C13_Witness ==
    \E t \in Threads :
        /\ pc[t] = "idle"
        /\ frame[t].name \in ResizeOps
        /\ frame[t].sent # <<>>
        /\ frame[t].dims = <<frame[t].sent[1], frame[t].sent[2]>>
        /\ Len(notified) = 2
        /\ mut = 0

\* The last element of a non-empty sequence.
Last(q) == q[Len(q)]

\* C20: once every call of OnResize, Resize, ResizeX and ResizeY has
\* returned, the arguments of the last invocation of the registered
\* callback are the rows and columns the terminal has, and the arguments of
\* every invocation are the rows and columns the terminal had inside the
\* critical section of the call that made it.  (Stated for the runs whose
\* last call to start is a resize, so that OnResize has read Height and
\* Width of a terminal no call has resized yet.)
C20_NotificationsInOrder ==
    ((\A t \in Threads : pc[t] = "idle") /\ ~panicked /\ Len(Screen.Content) > 0
        /\ op.name \in ResizeOps) =>
        /\ (notified # <<>> /\ Last(notified).f = onResize) =>
              <<Last(notified).rows, Last(notified).cols>> = Dims(Screen)
        /\ \A t \in Threads : frame[t].sent # <<>> => frame[t].sent = frame[t].dims

====
